---- MODULE Spec2Model ----
(***************************************************************************)
(* A model of cmd/multitool (multitool.go): the subcommand dispatcher, the *)
(* argument/stdin resolver, the timed stdin reader, the key-format         *)
(* dispatch of derive/pub/sign/verify and the varint codec.                *)
(*                                                                         *)
(* A Go string is modelled as a sequence of one-character strings, a       *)
(* []byte as a sequence of 0..255.  A 64-bit integer does not fit TLC's    *)
(* integers, so uint64/int64 values are kept as decimal digit sequences    *)
(* (most significant digit first, no leading zero) and the arithmetic the  *)
(* code and encoding/binary do on them is done digit by digit.             *)
(***************************************************************************)
EXTENDS Integers, Sequences, FiniteSets, TLC

(***************************************************************************)
(* Characters                                                              *)
(***************************************************************************)
DecDigits == <<"0", "1", "2", "3", "4", "5", "6", "7", "8", "9">>

HexDigits ==
  <<"0", "1", "2", "3", "4", "5", "6", "7", "8", "9", "a", "b", "c", "d", "e", "f">>

UpperHexDigits == <<"A", "B", "C", "D", "E", "F">>

IsDecDigit(c) == \E i \in 1..Len(DecDigits) : DecDigits[i] = c

DecVal(c) == (CHOOSE i \in 1..Len(DecDigits) : DecDigits[i] = c) - 1

\* encoding/hex fromHexChar: 0-9, a-f and A-F are hex characters.
IsHexChar(c) ==
  \/ \E i \in 1..Len(HexDigits) : HexDigits[i] = c
  \/ \E i \in 1..Len(UpperHexDigits) : UpperHexDigits[i] = c

HexVal(c) ==
  IF \E i \in 1..Len(HexDigits) : HexDigits[i] = c
  THEN (CHOOSE i \in 1..Len(HexDigits) : HexDigits[i] = c) - 1
  ELSE (CHOOSE i \in 1..Len(UpperHexDigits) : UpperHexDigits[i] = c) + 9

\* strings.HasPrefix
HasPrefix(s, p) == Len(s) >= Len(p) /\ SubSeq(s, 1, Len(p)) = p

\* strings.TrimPrefix
TrimPrefix(s, p) == IF HasPrefix(s, p) THEN SubSeq(s, Len(p) + 1, Len(s)) ELSE s

(***************************************************************************)
(* Unbounded naturals as decimal digit sequences                           *)
(***************************************************************************)
RECURSIVE StripZeros(_)
StripZeros(d) ==
  IF Len(d) > 1 /\ d[1] = 0 THEN StripZeros(Tail(d)) ELSE d

BigZero == <<0>>

BigLess(a, b) ==
  \/ Len(a) < Len(b)
  \/ /\ Len(a) = Len(b)
     /\ \E i \in 1..Len(a) :
          /\ a[i] < b[i]
          /\ \A j \in 1..(i - 1) : a[j] = b[j]

BigLeq(a, b) == a = b \/ BigLess(a, b)

\* d * k + a for small k and a.
RECURSIVE MulAddFrom(_, _, _, _)
MulAddFrom(d, k, carry, i) ==
  IF i = 0
  THEN IF carry = 0 THEN <<>> ELSE MulAddFrom(<<>>, k, carry \div 10, 0) \o <<carry % 10>>
  ELSE LET v == d[i] * k + carry
       IN  MulAddFrom(d, k, v \div 10, i - 1) \o <<v % 10>>

BigMulAdd(d, k, a) == StripZeros(<<0>> \o MulAddFrom(d, k, a, Len(d)))

\* Long division of d by a small k: the quotient and the remainder.
RECURSIVE DivFrom(_, _, _, _)
DivFrom(d, k, rem, i) ==
  IF i > Len(d)
  THEN [q |-> <<>>, r |-> rem]
  ELSE LET v == rem * 10 + d[i]
           rest == DivFrom(d, k, v % k, i + 1)
       IN  [q |-> <<v \div k>> \o rest.q, r |-> rest.r]

BigDiv(d, k) == StripZeros(DivFrom(d, k, 0, 1).q)

BigMod(d, k) == DivFrom(d, k, 0, 1).r

\* a - b for a >= b.
RECURSIVE SubFrom(_, _, _, _)
SubFrom(a, b, borrow, i) ==
  IF i = 0
  THEN <<>>
  ELSE LET j == i - (Len(a) - Len(b))
           bd == IF j >= 1 THEN b[j] ELSE 0
           v == a[i] - bd - borrow
       IN  IF v < 0
           THEN SubFrom(a, b, 1, i - 1) \o <<v + 10>>
           ELSE SubFrom(a, b, 0, i - 1) \o <<v>>

BigSub(a, b) == StripZeros(SubFrom(a, b, 0, Len(a)))

\* 2^32, 2^63 and 2^64.
Two32 == <<4, 2, 9, 4, 9, 6, 7, 2, 9, 6>>

Two63 == <<9, 2, 2, 3, 3, 7, 2, 0, 3, 6, 8, 5, 4, 7, 7, 5, 8, 0, 8>>

Two64 == <<1, 8, 4, 4, 6, 7, 4, 4, 0, 7, 3, 7, 0, 9, 5, 5, 1, 6, 1, 6>>

\* The digits of a character sequence of decimal digits.
DigitsOf(s) == StripZeros([i \in 1..Len(s) |-> DecVal(s[i])])

\* The decimal text of a natural: strconv.FormatUint(u, 10).
FormatUint(u) == [i \in 1..Len(u) |-> DecDigits[u[i] + 1]]

\* An int64 is [neg, mag]; fmt.Println prints it in decimal.
FormatInt(x) == IF x.neg THEN <<"-">> \o FormatUint(x.mag) ELSE FormatUint(x.mag)

(***************************************************************************)
(* strconv, encoding/hex and encoding/binary, as multitool.go calls them   *)
(***************************************************************************)
AllDecDigits(s) == \A i \in 1..Len(s) : IsDecDigit(s[i])

\* strconv.ParseUint(s, 10, 32): digits only, no sign, at most 2^32 - 1.
ParseUint32(s) ==
  IF s = <<>> \/ ~AllDecDigits(s)
  THEN [ok |-> FALSE, val |-> BigZero]
  ELSE IF BigLess(DigitsOf(s), Two32)
       THEN [ok |-> TRUE, val |-> DigitsOf(s)]
       ELSE [ok |-> FALSE, val |-> BigZero]

\* strconv.ParseInt(s, 10, 64): an optional sign, then digits; the value lies
\* in -2^63 .. 2^63 - 1.
ParseInt(s) ==
  LET signed == s # <<>> /\ s[1] \in {"+", "-"}
      neg == s # <<>> /\ s[1] = "-"
      body == IF signed THEN Tail(s) ELSE s
      bad == [ok |-> FALSE, val |-> [neg |-> FALSE, mag |-> BigZero]]
  IN  IF body = <<>> \/ ~AllDecDigits(body)
      THEN bad
      ELSE LET un == DigitsOf(body)
           IN  IF ~neg /\ ~BigLess(un, Two63)
               THEN bad
               ELSE IF neg /\ BigLess(Two63, un)
                    THEN bad
                    ELSE [ok |-> TRUE,
                          val |-> [neg |-> neg /\ un # BigZero, mag |-> un]]

\* hex.DecodeString: an even number of hex characters.
HexDecodeString(s) ==
  IF Len(s) % 2 # 0 \/ \E i \in 1..Len(s) : ~IsHexChar(s[i])
  THEN [ok |-> FALSE, bytes |-> <<>>]
  ELSE [ok |-> TRUE,
        bytes |-> [i \in 1..(Len(s) \div 2) |->
                     16 * HexVal(s[2 * i - 1]) + HexVal(s[2 * i])]]

\* hex.EncodeToString: two lowercase hex characters a byte.
HexEncodeToString(b) ==
  [i \in 1..(2 * Len(b)) |->
     IF i % 2 = 1
     THEN HexDigits[(b[(i + 1) \div 2] \div 16) + 1]
     ELSE HexDigits[(b[i \div 2] % 16) + 1]]

\* binary.PutUvarint: seven bits a byte, least significant group first, the
\* high bit set on every byte but the last.
RECURSIVE PutUvarint(_)
PutUvarint(x) ==
  IF ~BigLess(x, <<1, 2, 8>>)
  THEN <<BigMod(x, 128) + 128>> \o PutUvarint(BigDiv(x, 128))
  ELSE <<BigMod(x, 128)>>

\* uint64(x) of an int64: two's complement.
U64(x) == IF x.neg THEN BigSub(Two64, x.mag) ELSE x.mag

\* u << 1 on a uint64.
Shl1(u) ==
  LET d == BigMulAdd(u, 2, 0)
  IN  IF BigLess(d, Two64) THEN d ELSE BigSub(d, Two64)

\* ^u on a uint64.
Not64(u) == BigSub(BigSub(Two64, <<1>>), u)

\* binary.PutVarint: ux := uint64(x) << 1; if x < 0 { ux = ^ux }.
PutVarint(x) ==
  LET ux == Shl1(U64(x))
  IN  PutUvarint(IF x.neg THEN Not64(ux) ELSE ux)

\* The value of the seven-bit groups buf[1..n], least significant first.
RECURSIVE GroupsValue(_, _)
GroupsValue(buf, n) ==
  IF n = 0
  THEN BigZero
  ELSE BigMulAdd(GroupsValue(Tail(buf), n - 1), 128, buf[1] % 128)

\* binary.Uvarint: (value, bytes read); 0 bytes when buf ends inside a
\* number, a negative count when the number overflows 64 bits.
Uvarint(buf) ==
  IF \A i \in 1..Len(buf) : buf[i] >= 128
  THEN [n |-> BigZero, nbytes |-> 0]
  ELSE LET last == CHOOSE i \in 1..Len(buf) :
                     /\ buf[i] < 128
                     /\ \A j \in 1..(i - 1) : buf[j] >= 128
       IN  IF last - 1 > 9 \/ (last - 1 = 9 /\ buf[last] > 1)
           THEN [n |-> BigZero, nbytes |-> 0 - last]
           ELSE [n |-> GroupsValue(buf, last), nbytes |-> last]

\* binary.Varint: x := int64(ux >> 1); if ux&1 != 0 { x = ^x }.
Varint(buf) ==
  LET u == Uvarint(buf)
      x == BigDiv(u.n, 2)
  IN  [n |-> IF BigMod(u.n, 2) # 0
             THEN [neg |-> TRUE, mag |-> BigMulAdd(x, 1, 1)]
             ELSE [neg |-> FALSE, mag |-> x],
       nbytes |-> u.nbytes]

(***************************************************************************)
(* State                                                                   *)
(***************************************************************************)
VARIABLES
  \* timedReader under ioutil.ReadAll
  rStream,    \* what os.Stdin still delivers: chunk sizes, then EOF or silence
  rCaller,    \* ReadAll: "idle" between Reads, "select" inside Read, "done"
  rTimer,     \* the context of the current Read: "off", "armed", "fired"
  rTasks,     \* the goroutine of each Read: "reading", "send", "close", "done"
  rRes,       \* what each goroutine's r.Reader.Read returned
  rEarly,     \* whether that read returned before the deadline passed
  rRet,       \* what each Read returned to ReadAll
  \* one invocation of the tool
  pc,         \* "main", "handler", "exited"
  osArgs,     \* os.Args[1:]
  stdinData,  \* what ioutil.ReadAll(stdin) gives: [ok, data]
  randOk,     \* whether crypto/rand delivers
  proc,       \* stdout, exit status, stdin reads and the handler's locals
  \* the varint codec used in both directions
  cPc,        \* "start", "encoded", "decoded"
  cSigned,    \* varint (TRUE) or uvarint (FALSE)
  cVal,       \* the decimal text given to -to
  cHex,       \* what -to did with it
  cBack       \* what -from did with the hex that -to printed

readerVars == <<rStream, rCaller, rTimer, rTasks, rRes, rEarly, rRet>>

cliVars == <<pc, osArgs, stdinData, randOk, proc>>

codecVars == <<cPc, cSigned, cVal, cHex, cBack>>

vars == <<readerVars, cliVars, codecVars>>

(***************************************************************************)
(* timedReader.Read, called in a loop by ioutil.ReadAll(stdin)             *)
(***************************************************************************)
\* The longest run of chunks os.Stdin delivers, and the largest chunk.
MaxChunks == 2

MaxChunkLen == 2

RECURSIVE SeqsUpTo(_, _)
SeqsUpTo(S, n) ==
  IF n = 0
  THEN {<<>>}
  ELSE LET shorter == SeqsUpTo(S, n - 1)
       IN  shorter \cup {Append(q, x) : q \in {t \in shorter : Len(t) = n - 1}, x \in S}

Streams ==
  [chunks : SeqsUpTo(1..MaxChunkLen, MaxChunks), end : {"eof", "silent"}]

NoResult == [n |-> 0, err |-> "none"]

DeadlineExceeded == [n |-> 0, err |-> "DeadlineExceeded"]

\* The current Read's goroutine is the last one spawned.
Current == Len(rTasks)

\* Lines 38-49: the context with its deadline, the unbuffered channel and the
\* goroutine; the caller then waits in the select.
CallRead ==
  /\ rCaller = "idle"
  /\ rCaller' = "select"
  /\ rTimer' = "armed"
  /\ rTasks' = Append(rTasks, "reading")
  /\ rRes' = Append(rRes, NoResult)
  /\ rEarly' = Append(rEarly, FALSE)
  /\ UNCHANGED <<rStream, rRet, cliVars, codecVars>>

\* Line 46: r.Reader.Read(buf) returns: the next chunk, or EOF at the end of
\* the input.  On a silent stream it never returns.
UnderlyingRead(i) ==
  /\ rTasks[i] = "reading"
  /\ rStream.chunks # <<>> \/ rStream.end = "eof"
  /\ rRes' = [rRes EXCEPT ![i] =
                IF rStream.chunks # <<>>
                THEN [n |-> Head(rStream.chunks), err |-> "nil"]
                ELSE [n |-> 0, err |-> "EOF"]]
  /\ rStream' = [rStream EXCEPT
                   !.chunks = IF rStream.chunks # <<>> THEN Tail(rStream.chunks) ELSE <<>>]
  /\ rTasks' = [rTasks EXCEPT ![i] = "send"]
  /\ rEarly' = [rEarly EXCEPT ![i] = (i = Current /\ rCaller = "select" /\ rTimer = "armed")]
  /\ UNCHANGED <<rCaller, rTimer, rRet, cliVars, codecVars>>

\* Line 38: the deadline of context.WithTimeout passes; ctx.Done() is closed.
TimerFire ==
  /\ rTimer = "armed"
  /\ rTimer' = "fired"
  /\ UNCHANGED <<rStream, rCaller, rTasks, rRes, rEarly, rRet, cliVars, codecVars>>

\* Where ReadAll goes with what Read returned: on to the next Read while the
\* error is nil, out of the loop otherwise.
AfterRead(res) == IF res.err = "nil" THEN "idle" ELSE "done"

\* A Read whose timeout case goes round the for loop instead of returning.
SelectTimeoutContinues ==
  /\ rCaller = "select"
  /\ rTimer = "fired"
  /\ UNCHANGED <<rStream, rCaller, rTimer, rTasks, rRes, rEarly, rRet, cliVars, codecVars>>

\* Lines 52-53: case <-ctx.Done(): return 0, ctx.Err().
SelectTimeout ==
  /\ rCaller = "select"
  /\ rTimer = "fired"
  /\ rRet' = Append(rRet, DeadlineExceeded)
  /\ rCaller' = AfterRead(DeadlineExceeded)
  /\ rTimer' = "off"
  /\ UNCHANGED <<rStream, rTasks, rRes, rEarly, cliVars, codecVars>>

\* Lines 47 and 54-55: the send on the unbuffered channel meets the receive
\* of the select; Read returns res.n, res.err (and the deferred cancel runs).
SelectRecv ==
  /\ rCaller = "select"
  /\ rTasks[Current] = "send"
  /\ rRet' = Append(rRet, rRes[Current])
  /\ rCaller' = AfterRead(rRes[Current])
  /\ rTimer' = "off"
  /\ rTasks' = [rTasks EXCEPT ![Current] = "close"]
  /\ UNCHANGED <<rStream, rRes, rEarly, cliVars, codecVars>>

\* Line 48: close(readRes); the goroutine ends.
CloseChan(i) ==
  /\ rTasks[i] = "close"
  /\ rTasks' = [rTasks EXCEPT ![i] = "done"]
  /\ UNCHANGED <<rStream, rCaller, rTimer, rRes, rEarly, rRet, cliVars, codecVars>>

(***************************************************************************)
(* One invocation: the process, errorf, the registry, input                *)
(***************************************************************************)
\* The exit status while the process still runs.
Running == 0 - 1

\* A process that has printed nothing and read nothing.
NewProc ==
  [out |-> <<>>, exit |-> Running, reads |-> 0, inputs |-> <<>>,
   handler |-> "", mode |-> "", val |-> <<>>]

\* fmt.Println / fmt.Printf / spew.Printf: one line on standard output.
Println(p, format, arg) ==
  IF p.exit # Running
  THEN p
  ELSE [p EXCEPT !.out = Append(@, [fatal |-> FALSE, fmt |-> format, arg |-> arg])]

\* errorf: the message on standard output, then os.Exit(1).
errorf(p, format, arg) ==
  IF p.exit # Running
  THEN p
  ELSE [p EXCEPT !.out = Append(@, [fatal |-> TRUE, fmt |-> format, arg |-> arg]),
                 !.exit = 1]

\* A run-time panic: the trace goes to standard error and the process exits
\* with status 2.
Panic(p) == IF p.exit # Running THEN p ELSE [p EXCEPT !.exit = 2]

\* The handler returns, main returns, the process exits with status 0.
Return(p) == IF p.exit # Running THEN p ELSE [p EXCEPT !.exit = 0]

\* The subcommands table, with help added by init().
subcommands ==
  <<[name |-> <<"a", "s", "s", "e", "t", "i", "d">>, fn |-> "assetid"],
    [name |-> <<"b", "l", "o", "c", "k">>, fn |-> "block"],
    [name |-> <<"b", "l", "o", "c", "k", "h", "e", "a", "d", "e", "r">>, fn |-> "blockheader"],
    [name |-> <<"d", "e", "r", "i", "v", "e">>, fn |-> "derive"],
    [name |-> <<"g", "e", "n", "p", "r", "v">>, fn |-> "genprv"],
    [name |-> <<"g", "e", "n", "x", "p", "r", "v">>, fn |-> "genxprv"],
    [name |-> <<"h", "e", "x">>, fn |-> "hexCmd"],
    [name |-> <<"h", "m", "a", "c", "5", "1", "2">>, fn |-> "hmac512"],
    [name |-> <<"p", "u", "b">>, fn |-> "pub"],
    [name |-> <<"s", "c", "r", "i", "p", "t">>, fn |-> "script"],
    [name |-> <<"s", "h", "a", "3">>, fn |-> "sha3Cmd"],
    [name |-> <<"s", "i", "g", "n">>, fn |-> "sign"],
    [name |-> <<"t", "x">>, fn |-> "tx"],
    [name |-> <<"u", "v", "a", "r", "i", "n", "t">>, fn |-> "uvarint"],
    [name |-> <<"v", "a", "r", "i", "n", "t">>, fn |-> "varint"],
    [name |-> <<"v", "e", "r", "i", "f", "y">>, fn |-> "verify"],
    [name |-> <<"z", "e", "r", "o", "h", "a", "s", "h">>, fn |-> "zerohash"],
    [name |-> <<"h", "e", "l", "p">>, fn |-> "help"]>>

IsSubcommand(name) == \E i \in 1..Len(subcommands) : subcommands[i].name = name

Lookup(name) ==
  subcommands[CHOOSE i \in 1..Len(subcommands) : subcommands[i].name = name]

\* mustSubcommand: the table's entry, or a fatal error naming the command.
mustSubcommand(p, name) ==
  IF IsSubcommand(name)
  THEN [p |-> p, fn |-> Lookup(name).fn]
  ELSE [p |-> errorf(p, "unknown subcommand \"%s\"", name), fn |-> ""]

Dash == <<"-">>

\* ioutil.ReadAll(stdin): the whole input, or the timed reader's
\* DeadlineExceeded when a Read saw its deadline pass first.
ReadAllStdin == stdinData

\* An input that reads stdin without recording that it did.
inputForgetsStdin(p, args, n, usedStdin) ==
  IF p.exit # Running
  THEN [p |-> p, val |-> <<>>, used |-> usedStdin]
  ELSE IF Len(args) > n /\ args[n + 1] # Dash
       THEN [p |-> [p EXCEPT !.inputs = Append(@, args[n + 1])],
             val |-> args[n + 1], used |-> usedStdin]
       ELSE LET r == ReadAllStdin
                q == [p EXCEPT !.reads = @ + 1]
            IN  IF ~r.ok
                THEN [p |-> errorf(q, "unexpected error: %s", <<>>),
                      val |-> <<>>, used |-> usedStdin]
                ELSE [p |-> [q EXCEPT !.inputs = Append(@, r.data)],
                      val |-> r.data, used |-> usedStdin]

\* input: the n-th argument (counted from 0), or all of stdin when it is
\* missing or "-"; stdin serves one input only.
input(p, args, n, usedStdin) ==
  IF p.exit # Running
  THEN [p |-> p, val |-> <<>>, used |-> usedStdin]
  ELSE IF Len(args) > n /\ args[n + 1] # Dash
       THEN [p |-> [p EXCEPT !.inputs = Append(@, args[n + 1])],
             val |-> args[n + 1], used |-> usedStdin]
       ELSE IF usedStdin
            THEN [p |-> errorf(p, "can use stdin for only one arg", <<>>),
                  val |-> <<>>, used |-> usedStdin]
            ELSE LET r == ReadAllStdin
                     q == [p EXCEPT !.reads = @ + 1]
                 IN  IF ~r.ok
                     THEN [p |-> errorf(q, "unexpected error: %s", <<>>),
                           val |-> <<>>, used |-> usedStdin]
                     ELSE [p |-> [q EXCEPT !.inputs = Append(@, r.data)],
                           val |-> r.data, used |-> TRUE]

\* mustDecodeHex: the bytes, or a fatal error.
mustDecodeHex(p, s) ==
  LET r == HexDecodeString(s)
  IN  IF p.exit # Running
      THEN [p |-> p, bytes |-> <<>>]
      ELSE IF r.ok
           THEN [p |-> p, bytes |-> r.bytes]
           ELSE [p |-> errorf(p, "error decoding hex: %s", <<>>), bytes |-> <<>>]

(***************************************************************************)
(* The packages multitool.go calls into (chain/crypto/ed25519/hd25519,     *)
(* chain/cos/bc, chain/cos/txscript, crypto/hmac, sha3).  Only whether a   *)
(* text parses and which kind of value comes out matters to multitool.go;  *)
(* the values themselves are stand-ins.                                    *)
(***************************************************************************)
\* The byte lengths of a raw private key, a raw public key and a hash.
PrvLen == 2

PubLen == 1

HashLen == 1

\* An extended key's text carries a tag that raw hex cannot carry.
XPrvTag == <<"x", "p", "r", "v">>

XPubTag == <<"x", "p", "u", "b">>

TaggedKey(s, tag, n) ==
  LET h == HexDecodeString(TrimPrefix(s, tag))
  IN  [ok |-> HasPrefix(s, tag) /\ h.ok /\ Len(h.bytes) = n, key |-> h.bytes]

XPrvFromString(s) == TaggedKey(s, XPrvTag, PrvLen)

XPubFromString(s) == TaggedKey(s, XPubTag, PubLen)

PrvFromBytes(b) == [ok |-> Len(b) = PrvLen, key |-> b]

PubFromBytes(b) == [ok |-> Len(b) = PubLen, key |-> b]

XPrvString(k) == XPrvTag \o HexEncodeToString(k)

XPubString(k) == XPubTag \o HexEncodeToString(k)

\* The public key of a private key.
Public(prv) == SubSeq(prv, 1, PubLen)

\* The child of an extended key along a path: a key of the same kind.
DeriveKey(k, path) == [i \in 1..Len(k) |-> (k[i] + Len(path)) % 256]

Sign(prv, msg) == Public(prv) \o msg

Verify(pubkey, msg, sig) == sig = pubkey \o msg

\* bc.Hash.UnmarshalText and bc.ComputeAssetID.
HashFromText(s) ==
  LET h == HexDecodeString(s)
  IN  [ok |-> h.ok /\ Len(h.bytes) = HashLen, hash |-> h.bytes]

ComputeAssetID(issuance, genesis) ==
  [i \in 1..Len(genesis) |-> (genesis[i] + Len(issuance)) % 256]

ZeroHash == [i \in 1..HashLen |-> 0]

\* The texts json.Unmarshal takes for a bc.Block and a bc.BlockHeader, and
\* bc.TxData.UnmarshalText for a transaction.
BlockText == <<"{", "}">>

TxText == <<"0", "7">>

UnmarshalBlock(s) == s = BlockText

UnmarshalTx(s) == s = TxText

\* txscript: two opcodes, 0x51 written T and 0x76 written D.
OpTrue == 81

OpDup == 118

DisasmString(b) ==
  [ok |-> \A i \in 1..Len(b) : b[i] \in {OpTrue, OpDup},
   text |-> [i \in 1..Len(b) |-> IF b[i] = OpTrue THEN "T" ELSE "D"]]

ParseScriptString(s) ==
  [ok |-> \A i \in 1..Len(s) : s[i] \in {"T", "D"},
   bytes |-> [i \in 1..Len(s) |-> IF s[i] = "T" THEN OpTrue ELSE OpDup]]

\* A digest of some bytes (hmac-sha512, sha3-256).
RECURSIVE SumBytes(_)
SumBytes(b) == IF b = <<>> THEN 0 ELSE (Head(b) + SumBytes(Tail(b))) % 256

Hmac512Sum(key, val) == <<(SumBytes(key) + 2 * SumBytes(val)) % 256>>

Sha3Sum256(b) == <<(SumBytes(b) + 1) % 256>>

\* []byte(s) and string(b) for the characters the inputs are made of.
Ascii ==
  <<[c |-> "0", b |-> 48], [c |-> "1", b |-> 49], [c |-> "2", b |-> 50],
    [c |-> "3", b |-> 51], [c |-> "4", b |-> 52], [c |-> "5", b |-> 53],
    [c |-> "6", b |-> 54], [c |-> "7", b |-> 55], [c |-> "8", b |-> 56],
    [c |-> "9", b |-> 57], [c |-> "a", b |-> 97], [c |-> "b", b |-> 98],
    [c |-> "c", b |-> 99], [c |-> "d", b |-> 100], [c |-> "e", b |-> 101],
    [c |-> "f", b |-> 102], [c |-> "x", b |-> 120], [c |-> "z", b |-> 122],
    [c |-> "-", b |-> 45], [c |-> "T", b |-> 84], [c |-> "D", b |-> 68],
    [c |-> "p", b |-> 112], [c |-> "r", b |-> 114], [c |-> "u", b |-> 117],
    [c |-> "v", b |-> 118], [c |-> "{", b |-> 123], [c |-> "}", b |-> 125]>>

CharCode(c) ==
  IF \E i \in 1..Len(Ascii) : Ascii[i].c = c
  THEN Ascii[CHOOSE i \in 1..Len(Ascii) : Ascii[i].c = c].b
  ELSE 63

ByteChar(b) ==
  IF \E i \in 1..Len(Ascii) : Ascii[i].b = b
  THEN Ascii[CHOOSE i \in 1..Len(Ascii) : Ascii[i].b = b].c
  ELSE "?"

BytesOf(s) == [i \in 1..Len(s) |-> CharCode(s[i])]

StringOf(b) == [i \in 1..Len(b) |-> ByteChar(b[i])]

(***************************************************************************)
(* The handlers.  Each takes the process so far and args (os.Args[2:]) and *)
(* gives the process as it is when the handler returns or exits.           *)
(***************************************************************************)
\* mustDecodeHash: the hash, or a fatal error.
mustDecodeHash(p, s) ==
  LET r == HashFromText(s)
  IN  IF p.exit # Running
      THEN [p |-> p, hash |-> <<>>]
      ELSE IF r.ok
           THEN [p |-> p, hash |-> r.hash]
           ELSE [p |-> errorf(p, "error decoding hash: %s", <<>>), hash |-> <<>>]

assetid(p, args) ==
  LET issuanceInp == input(p, args, 0, FALSE)
      genesisInp == input(issuanceInp.p, args, 1, issuanceInp.used)
      issuance == mustDecodeHex(genesisInp.p, issuanceInp.val)
      genesis == mustDecodeHash(issuance.p, genesisInp.val)
  IN  Println(genesis.p, "%s\n",
              HexEncodeToString(ComputeAssetID(issuance.bytes, genesis.hash)))

block(p, args) ==
  LET inp == input(p, args, 0, FALSE)
  IN  IF ~UnmarshalBlock(inp.val)
      THEN errorf(inp.p, "error unmarshaling block: %s", <<>>)
      ELSE Println(inp.p, "%v\n", inp.val)

blockheader(p, args) ==
  LET inp == input(p, args, 0, FALSE)
  IN  IF ~UnmarshalBlock(inp.val)
      THEN errorf(inp.p, "error unmarshaling blockheader: %s", <<>>)
      ELSE Println(inp.p, "%v\n", inp.val)

\* The first of the path arguments that strconv.ParseUint(a, 10, 32) refuses.
BadPath(args) == {i \in 2..Len(args) : ~ParseUint32(args[i]).ok}

FirstBadPath(args) == CHOOSE i \in BadPath(args) : \A j \in BadPath(args) : i <= j

derive(p, args) ==
  LET k == input(p, args, 0, FALSE)
      \* make([]uint32, 0, len(args)-1) panics on a capacity of -1
      made == IF Len(args) = 0 THEN Panic(k.p) ELSE k.p
      parsed == IF BadPath(args) # {}
                THEN errorf(made, "could not parse %s as uint32", args[FirstBadPath(args)])
                ELSE made
      path == [i \in 1..(Len(args) - 1) |-> ParseUint32(args[i + 1]).val]
      xprv == XPrvFromString(k.val)
      xpub == XPubFromString(k.val)
  IN  IF xprv.ok
      THEN Println(parsed, "%s\n", XPrvString(DeriveKey(xprv.key, path)))
      ELSE IF xpub.ok
           THEN Println(parsed, "%s\n", XPubString(DeriveKey(xpub.key, path)))
           ELSE errorf(parsed, "could not parse key", <<>>)

\* ed25519.GenerateKey(nil) and hd25519.NewXKeys(nil) read crypto/rand, which
\* can fail.
genprv(p, args) ==
  IF ~randOk
  THEN errorf(p, "unexpected error %s", <<>>)
  ELSE Println(p, "%s\n", HexEncodeToString(<<10, 11>>))

genxprv(p, args) ==
  IF ~randOk
  THEN errorf(p, "unexpected error %s", <<>>)
  ELSE Println(p, "%s\n", XPrvString(<<10, 11>>))

hexCmd(p, args) ==
  LET inp == input(p, args, 0, FALSE)
      b == HexDecodeString(inp.val)
  IN  IF b.ok
      THEN Println(inp.p, "%s\n", StringOf(b.bytes))
      ELSE Println(inp.p, "%s\n", HexEncodeToString(BytesOf(inp.val)))

hmac512(p, args) ==
  LET key == input(p, args, 0, FALSE)
      val == input(key.p, args, 1, key.used)
      k == mustDecodeHex(val.p, key.val)
      v == mustDecodeHex(k.p, val.val)
  IN  Println(v.p, "%s\n", HexEncodeToString(Hmac512Sum(k.bytes, v.bytes)))

pub(p, args) ==
  LET inp == input(p, args, 0, FALSE)
      xprv == XPrvFromString(inp.val)
      raw == mustDecodeHex(inp.p, inp.val)
      prv == PrvFromBytes(raw.bytes)
  IN  IF xprv.ok
      THEN Println(inp.p, "%s\n", XPubString(Public(xprv.key)))
      ELSE IF prv.ok
           THEN Println(raw.p, "%s\n", HexEncodeToString(Public(prv.key)))
           ELSE errorf(raw.p, "could not parse key", <<>>)

script(p, args) ==
  LET inp == input(p, args, 0, FALSE)
      b == HexDecodeString(inp.val)
      dis == DisasmString(b.bytes)
      parsed == ParseScriptString(inp.val)
  IN  IF b.ok /\ dis.ok
      THEN Println(inp.p, "%s\n", dis.text)
      ELSE IF parsed.ok
           THEN Println(inp.p, "%s\n", HexEncodeToString(parsed.bytes))
           ELSE errorf(inp.p, "could not parse input", <<>>)

sha3Cmd(p, args) ==
  LET inp == input(p, args, 0, FALSE)
      b == mustDecodeHex(inp.p, inp.val)
  IN  Println(b.p, "%s\n", HexEncodeToString(Sha3Sum256(b.bytes)))

sign(p, args) ==
  LET keyInp == input(p, args, 0, FALSE)
      msgInp == input(keyInp.p, args, 1, keyInp.used)
      xprv == XPrvFromString(keyInp.val)
      raw == IF xprv.ok
             THEN [p |-> msgInp.p, bytes |-> <<>>]
             ELSE mustDecodeHex(msgInp.p, keyInp.val)
      prv == PrvFromBytes(raw.bytes)
      keyed == IF xprv.ok \/ prv.ok
               THEN raw.p
               ELSE errorf(raw.p, "could not parse key", <<>>)
      msg == mustDecodeHex(keyed, msgInp.val)
      signed == IF xprv.ok THEN Sign(xprv.key, msg.bytes) ELSE Sign(prv.key, msg.bytes)
  IN  Println(msg.p, "%s\n", HexEncodeToString(signed))

tx(p, args) ==
  LET inp == input(p, args, 0, FALSE)
  IN  IF ~UnmarshalTx(inp.val)
      THEN errorf(inp.p, "error unmarshaling tx: %s", <<>>)
      ELSE Println(inp.p, "%v\n", inp.val)

FromFlag == <<"-", "f", "r", "o", "m">>

ToFlag == <<"-", "t", "o">>

HexPrefix == <<"0", "x">>

\* Lines 346-352: a leading -from or -to is the mode and is taken off args.
FlagOf(args) ==
  IF Len(args) > 0 /\ args[1] \in {FromFlag, ToFlag} THEN args[1] ELSE <<>>

\* A mode inference that takes the 0x prefix off under an explicit flag too.
InferModeStripsAlways(flag, val) ==
  IF flag # <<>>
  THEN [mode |-> IF flag = ToFlag THEN "-to" ELSE "-from",
        val |-> TrimPrefix(val, HexPrefix)]
  ELSE IF HasPrefix(val, HexPrefix)
       THEN [mode |-> "-from", val |-> TrimPrefix(val, HexPrefix)]
       ELSE IF ParseInt(val).ok
            THEN [mode |-> "-to", val |-> val]
            ELSE [mode |-> "-from", val |-> val]

\* Lines 354-366: with no flag, the mode comes from the value's shape.
InferMode(flag, val) ==
  IF flag # <<>>
  THEN [mode |-> IF flag = ToFlag THEN "-to" ELSE "-from", val |-> val]
  ELSE IF HasPrefix(val, HexPrefix)
       THEN [mode |-> "-from", val |-> TrimPrefix(val, HexPrefix)]
       ELSE IF ParseInt(val).ok
            THEN [mode |-> "-to", val |-> val]
            ELSE [mode |-> "-from", val |-> val]

\* Lines 368-382: decimal to hex.
ToHex(p, val, signed) ==
  LET val10 == ParseInt(val)
  IN  IF ~val10.ok
      THEN errorf(p, "could not parse base 10 int", <<>>)
      ELSE Println(p, "%s\n",
                   HexEncodeToString(IF signed
                                     THEN PutVarint(val10.val)
                                     ELSE PutUvarint(U64(val10.val))))

\* Lines 383-397: hex to decimal.
FromHex(p, val, signed) ==
  LET val16 == mustDecodeHex(p, val)
      s == Varint(val16.bytes)
      u == Uvarint(val16.bytes)
  IN  IF signed
      THEN IF s.nbytes <= 0
           THEN errorf(val16.p, "could not parse varint", <<>>)
           ELSE Println(val16.p, "%d\n", FormatInt(s.n))
      ELSE IF u.nbytes <= 0
           THEN errorf(val16.p, "could not parse varint", <<>>)
           ELSE Println(val16.p, "%d\n", FormatUint(u.n))

dovarint(p, args, signed) ==
  LET flag == FlagOf(args)
      inp == input(p, IF flag # <<>> THEN Tail(args) ELSE args, 0, FALSE)
      m == InferMode(flag, inp.val)
      q == IF inp.p.exit # Running
           THEN inp.p
           ELSE [inp.p EXCEPT !.mode = m.mode, !.val = m.val]
  IN  IF m.mode = "-to" THEN ToHex(q, m.val, signed) ELSE FromHex(q, m.val, signed)

varint(p, args) == dovarint(p, args, TRUE)

uvarint(p, args) == dovarint(p, args, FALSE)

verify(p, args) ==
  LET keyInp == input(p, args, 0, FALSE)
      msgInp == input(keyInp.p, args, 1, keyInp.used)
      sigInp == input(msgInp.p, args, 2, msgInp.used)
      xpub == XPubFromString(keyInp.val)
      raw == IF xpub.ok
             THEN [p |-> sigInp.p, bytes |-> <<>>]
             ELSE mustDecodeHex(sigInp.p, keyInp.val)
      pubkey == PubFromBytes(raw.bytes)
      keyed == IF xpub.ok \/ pubkey.ok
               THEN raw.p
               ELSE errorf(raw.p, "could not parse key", <<>>)
      msg == mustDecodeHex(keyed, msgInp.val)
      sig == mustDecodeHex(msg.p, sigInp.val)
      verified == IF xpub.ok
                  THEN Verify(xpub.key, msg.bytes, sig.bytes)
                  ELSE Verify(pubkey.key, msg.bytes, sig.bytes)
  IN  IF verified
      THEN Println(sig.p, "verified", <<>>)
      ELSE Println(sig.p, "not verified", <<>>)

zerohash(p, args) == Println(p, "%s\n", HexEncodeToString(ZeroHash))

\* One line for each entry of the table (Go ranges over the map in no fixed
\* order; the table's order stands for any).
RECURSIVE HelpAll(_, _)
HelpAll(p, i) ==
  IF i > Len(subcommands)
  THEN p
  ELSE HelpAll(Println(p, "%-16.16s %s\n", subcommands[i].name), i + 1)

\* A help that prints the usage line before it has looked the name up.
helpPrintsFirst(p, args) ==
  IF Len(args) > 0
  THEN LET printed == Println(p, "%s %s\n", args[1])
       IN  Println(mustSubcommand(printed, args[1]).p, "%s\n", args[1])
  ELSE HelpAll(p, 1)

help(p, args) ==
  IF Len(args) > 0
  THEN LET subcommand == mustSubcommand(p, args[1])
       IN  Println(Println(subcommand.p, "%s\n", args[1]), "%s %s\n", args[1])
  ELSE HelpAll(p, 1)

\* main, up to the call of the handler.
main(p, args) ==
  IF Len(args) < 1
  THEN errorf(p, "no subcommand (try \"%s help\")", <<>>)
  ELSE LET subcommand == mustSubcommand(p, args[1])
       IN  [subcommand.p EXCEPT !.handler = subcommand.fn]

(***************************************************************************)
(* The invocations checked                                                 *)
(***************************************************************************)
\* The most arguments after the subcommand's name.
MaxArgs == 3

\* The decimal inputs of the codec run from -MaxSmall to MaxSmall, plus the
\* values around the ends of the 64-bit ranges.
MaxSmall == 130

H1 == <<"0", "a">>

H2 == <<"0", "a", "0", "b">>

GoodSig == <<"0", "a", "0", "a">>

NotHex == <<"z", "z">>

XPrvText == XPrvTag \o H2

XPubText == XPubTag \o H1

Overlong == <<"f", "f", "f", "f", "f", "f", "f", "f", "f", "f", "f", "f", "f", "f", "f", "f", "f", "f", "f", "f", "0", "1">>

Unknown == <<"n", "o", "p", "e">>

\* The arguments tried for each handler.
Vocab(fn) ==
  CASE fn = "assetid" -> {Dash, H1, H2, NotHex}
    [] fn \in {"block", "blockheader"} -> {Dash, BlockText, NotHex}
    [] fn = "tx" -> {Dash, TxText, NotHex}
    [] fn = "derive" -> {Dash, XPrvText, XPubText, <<"7">>, NotHex}
    [] fn \in {"genprv", "genxprv", "zerohash"} -> {H1}
    [] fn \in {"hexCmd", "hmac512", "sha3Cmd"} -> {Dash, H1, NotHex}
    [] fn \in {"pub", "sign"} -> {Dash, XPrvText, H2, H1, NotHex}
    [] fn = "script" -> {Dash, <<"5", "1">>, <<"D", "D">>, NotHex}
    [] fn = "verify" -> {Dash, XPubText, H1, GoodSig, NotHex}
    [] fn \in {"varint", "uvarint"} ->
         {Dash, FromFlag, ToFlag, <<"3", "0", "0">>, <<"0", "x", "a", "c", "0", "2">>, <<"a", "c", "0", "2">>,
          <<"-", "3">>, <<"f", "f">>, Overlong}
    [] fn = "help" -> {<<"s", "i", "g", "n">>, Unknown}

\* What stdin holds when it delivers within the time limit.
StdinTexts(fn) ==
  CASE fn = "assetid" -> {H1, NotHex}
    [] fn \in {"block", "blockheader"} -> {BlockText}
    [] fn = "tx" -> {TxText}
    [] fn = "derive" -> {XPrvText, <<>>}
    [] fn \in {"genprv", "genxprv", "zerohash", "help"} -> {}
    [] fn \in {"hexCmd", "hmac512", "sha3Cmd"} -> {H1}
    [] fn \in {"pub", "sign"} -> {H2, NotHex}
    [] fn = "script" -> {<<"5", "1">>}
    [] fn = "verify" -> {H1, GoodSig}
    [] fn \in {"varint", "uvarint"} -> {<<"3", "0", "0">>, <<"0", "x", "a", "c", "0", "2">>, NotHex}

\* The arguments a handler looks at (derive takes any number of path segments).
Positionals(fn) ==
  CASE fn \in {"genprv", "genxprv", "zerohash"} -> 0
    [] fn \in {"assetid", "hmac512", "sign", "varint", "uvarint"} -> 2
    [] fn = "verify" -> 3
    [] fn = "derive" -> MaxArgs
    [] OTHER -> 1

ArgLimit(fn) == IF Positionals(fn) + 1 < MaxArgs THEN Positionals(fn) + 1 ELSE MaxArgs

StdinChoices(fn) ==
  {[ok |-> FALSE, data |-> <<>>]} \cup {[ok |-> TRUE, data |-> t] : t \in StdinTexts(fn)}

Invocations ==
  {[args |-> <<>>, stdin |-> [ok |-> FALSE, data |-> <<>>], rand |-> TRUE]}
  \cup {[args |-> <<Unknown>> \o a, stdin |-> [ok |-> FALSE, data |-> <<>>], rand |-> TRUE] :
          a \in {<<>>, <<H1>>}}
  \cup UNION {{[args |-> <<subcommands[i].name>> \o a, stdin |-> d, rand |-> r] :
                 a \in SeqsUpTo(Vocab(subcommands[i].fn), ArgLimit(subcommands[i].fn)),
                 d \in StdinChoices(subcommands[i].fn),
                 r \in IF subcommands[i].fn \in {"genprv", "genxprv"} THEN BOOLEAN ELSE {TRUE}} :
              i \in 1..Len(subcommands)}

RECURSIVE NatText(_)
NatText(n) ==
  IF n < 10 THEN <<DecDigits[n + 1]>> ELSE Append(NatText(n \div 10), DecDigits[(n % 10) + 1])

CodecInputs ==
  {NatText(n) : n \in 0..MaxSmall}
  \cup {<<"-">> \o NatText(n) : n \in 1..MaxSmall}
  \cup {<<"3", "0", "0">>, <<"1", "6", "3", "8", "3">>, <<"1", "6", "3", "8", "4">>,
        FormatUint(BigSub(Two63, <<1>>)), FormatUint(Two63),
        <<"-">> \o FormatUint(Two63), <<"-">> \o FormatUint(BigMulAdd(Two63, 1, 1)),
        FormatUint(BigSub(Two64, <<1>>)), FormatUint(Two64)}

(***************************************************************************)
(* Initial states                                                          *)
(***************************************************************************)
ReaderIdle ==
  /\ rStream = [chunks |-> <<>>, end |-> "eof"]
  /\ rCaller = "done"
  /\ rTimer = "off"
  /\ rTasks = <<>>
  /\ rRes = <<>>
  /\ rEarly = <<>>
  /\ rRet = <<>>

CliIdle ==
  /\ pc = "exited"
  /\ osArgs = <<>>
  /\ stdinData = [ok |-> FALSE, data |-> <<>>]
  /\ randOk = TRUE
  /\ proc = NewProc

CodecIdle ==
  /\ cPc = "decoded"
  /\ cSigned = TRUE
  /\ cVal = <<>>
  /\ cHex = NewProc
  /\ cBack = NewProc

\* The tool is started with some arguments and some stdin.
Init ==
  /\ pc = "main"
  /\ proc = NewProc
  /\ \E v \in Invocations :
       /\ osArgs = v.args
       /\ stdinData = v.stdin
       /\ randOk = v.rand
  /\ ReaderIdle
  /\ CodecIdle

\* ioutil.ReadAll(stdin) is about to call stdin.Read for the first time.
ReaderInit ==
  /\ rStream \in Streams
  /\ rCaller = "idle"
  /\ rTimer = "off"
  /\ rTasks = <<>>
  /\ rRes = <<>>
  /\ rEarly = <<>>
  /\ rRet = <<>>
  /\ CliIdle
  /\ CodecIdle

\* A decimal text to take through varint/uvarint -to and back through -from.
CodecInit ==
  /\ cPc = "start"
  /\ cSigned \in BOOLEAN
  /\ cVal \in CodecInputs
  /\ cHex = NewProc
  /\ cBack = NewProc
  /\ ReaderIdle
  /\ CliIdle

(***************************************************************************)
(* Actions                                                                 *)
(***************************************************************************)
\* main: no subcommand, an unknown one, or on to the handler.
RunMain ==
  /\ pc = "main"
  /\ proc' = main(proc, osArgs)
  /\ pc' = IF proc'.exit = Running THEN "handler" ELSE "exited"
  /\ UNCHANGED <<osArgs, stdinData, randOk, readerVars, codecVars>>

\* subcommand.fn(os.Args[2:]) runs to its return or to os.Exit.
Call(fn, result) ==
  /\ pc = "handler"
  /\ proc.handler = fn
  /\ proc' = Return(result)
  /\ pc' = "exited"
  /\ UNCHANGED <<osArgs, stdinData, randOk, readerVars, codecVars>>

Args == Tail(osArgs)

Next ==
  \/ RunMain
  \/ Call("assetid", assetid(proc, Args))
  \/ Call("block", block(proc, Args))
  \/ Call("blockheader", blockheader(proc, Args))
  \/ Call("derive", derive(proc, Args))
  \/ Call("genprv", genprv(proc, Args))
  \/ Call("genxprv", genxprv(proc, Args))
  \/ Call("hexCmd", hexCmd(proc, Args))
  \/ Call("hmac512", hmac512(proc, Args))
  \/ Call("pub", pub(proc, Args))
  \/ Call("script", script(proc, Args))
  \/ Call("sha3Cmd", sha3Cmd(proc, Args))
  \/ Call("sign", sign(proc, Args))
  \/ Call("tx", tx(proc, Args))
  \/ Call("uvarint", uvarint(proc, Args))
  \/ Call("varint", varint(proc, Args))
  \/ Call("verify", verify(proc, Args))
  \/ Call("zerohash", zerohash(proc, Args))
  \/ Call("help", help(proc, Args))

Spec == Init /\ [][Next]_vars

ReaderNext ==
  \/ CallRead
  \/ \E i \in 1..Len(rTasks) : UnderlyingRead(i)
  \/ TimerFire
  \/ SelectTimeout
  \/ SelectRecv
  \/ \E i \in 1..Len(rTasks) : CloseChan(i)

ReaderSpec == ReaderInit /\ [][ReaderNext]_vars

\* The timer and the Go scheduler are fair: a deadline that is armed passes,
\* and a goroutine or a select that can go on does.  Nothing makes the
\* underlying read return.
ReaderFairness ==
  /\ WF_vars(CallRead)
  /\ WF_vars(TimerFire)
  /\ WF_vars(SelectTimeout)
  /\ WF_vars(SelectRecv)
  /\ WF_vars(\E i \in 1..Len(rTasks) : CloseChan(i))

FairReaderSpec == ReaderSpec /\ ReaderFairness

\* varint/uvarint -to on the decimal text.
Encode ==
  /\ cPc = "start"
  /\ cHex' = Return(dovarint(NewProc, <<ToFlag, cVal>>, cSigned))
  /\ cPc' = "encoded"
  /\ UNCHANGED <<cSigned, cVal, cBack, readerVars, cliVars>>

\* varint/uvarint -from on the hex text that -to printed.
Decode ==
  /\ cPc = "encoded"
  /\ cHex.exit = 0
  /\ cBack' = Return(dovarint(NewProc, <<FromFlag, cHex.out[1].arg>>, cSigned))
  /\ cPc' = "decoded"
  /\ UNCHANGED <<cSigned, cVal, cHex, readerVars, cliVars>>

CodecNext == Encode \/ Decode

CodecSpec == CodecInit /\ [][CodecNext]_vars

(***************************************************************************)
(* Properties of timedReader.Read                                          *)
(***************************************************************************)
\* A goroutine that holds a read result and whose Read has already returned:
\* nothing will ever receive from its channel.
Stranded(i) == rTasks[i] = "send" /\ ~(i = Current /\ rCaller = "select")

\* C1: after a timeout the abandoned goroutine still runs to completion: no
\* goroutine is ever left blocked on its send with no receiver.
C1_NoTaskLeftBlocked == \A i \in 1..Len(rTasks) : ~Stranded(i)

Silent == rStream.chunks = <<>> /\ rStream.end = "silent"

\* C2: a Read on a stream that delivers nothing and never ends returns to
\* its caller, with 0 bytes and DeadlineExceeded.
C2_SilentReadTimesOut ==
  (rCaller = "select" /\ Silent /\ rTasks[Current] = "reading")
    ~> (rCaller = "done" /\ rRet[Len(rRet)] = DeadlineExceeded)

C2_Witness ==
  /\ Silent
  /\ rCaller = "done"
  /\ Len(rRet) = 1
  /\ rRet[Len(rRet)] = DeadlineExceeded
  /\ rTasks[Current] = "reading"

\* C3: a Read whose underlying read returned before the deadline passed
\* returns that read's count and error.
C3_EarlyReadReturned ==
  \A i \in 1..Len(rRet) : rEarly[i] => rRet[i] = rRes[i]

(***************************************************************************)
(* Properties of an invocation                                             *)
(***************************************************************************)
Exited == pc = "exited"

\* The inputs a handler resolves with input().
Inputs(fn) ==
  CASE fn \in {"assetid", "hmac512", "sign"} -> 2
    [] fn = "verify" -> 3
    [] fn \in {"genprv", "genxprv", "zerohash", "help"} -> 0
    [] OTHER -> 1

\* The arguments input() indexes: dovarint takes its flag off first.
InputArgs ==
  IF proc.handler \in {"varint", "uvarint"} /\ Args # <<>> /\ Args[1] \in {FromFlag, ToFlag}
  THEN Tail(Args)
  ELSE Args

FromStdin(n) == Len(InputArgs) < n \/ InputArgs[n] = Dash

StdinSlots == {n \in 1..Inputs(proc.handler) : FromStdin(n)}

Expected ==
  [n \in 1..Inputs(proc.handler) |-> IF FromStdin(n) THEN stdinData.data ELSE InputArgs[n]]

OnlyLine(format) ==
  /\ Len(proc.out) = 1
  /\ proc.out[1].fatal
  /\ proc.out[1].fmt = format
  /\ proc.exit = 1

\* C4: stdin is read at most once; a second input from stdin fails with the
\* multiple-uses error and no second read; one input from stdin beside
\* literal arguments resolves every input.
C4_OneStdinInput ==
  /\ proc.reads <= 1
  /\ (Exited /\ proc.handler # "")
       => /\ StdinSlots = {} => (proc.reads = 0 /\ proc.inputs = Expected)
          /\ (Cardinality(StdinSlots) = 1 /\ stdinData.ok)
               => (proc.reads = 1 /\ proc.inputs = Expected)
          /\ (Cardinality(StdinSlots) >= 2 /\ stdinData.ok)
               => (proc.reads = 1 /\ OnlyLine("can use stdin for only one arg"))

C4_Witness ==
  /\ Exited
  /\ proc.handler = "verify"
  /\ StdinSlots = {1, 3}
  /\ stdinData.ok
  /\ proc.reads = 1
  /\ OnlyLine("can use stdin for only one arg")

\* No format the command tries takes the key text.
Unparseable(fn, key) ==
  LET h == HexDecodeString(key)
  IN  CASE fn = "derive" -> ~XPrvFromString(key).ok /\ ~XPubFromString(key).ok
        [] fn \in {"pub", "sign"} ->
             ~XPrvFromString(key).ok /\ ~(h.ok /\ PrvFromBytes(h.bytes).ok)
        [] fn = "verify" ->
             ~XPubFromString(key).ok /\ ~(h.ok /\ PubFromBytes(h.bytes).ok)

\* C6: derive, pub, sign and verify answer a key that no format takes with
\* "could not parse key" and status 1, and print nothing else.
C6_UnparseableKeyReported ==
  (/\ Exited
   /\ proc.handler \in {"derive", "pub", "sign", "verify"}
   /\ Len(proc.inputs) = Inputs(proc.handler)
   /\ Unparseable(proc.handler, proc.inputs[1]))
    => OnlyLine("could not parse key")

\* C7: a fatal error's message is the only line printed: no result comes
\* before it, and a process that printed a result ends with status 0.
C7_NoOutputBeforeFatal ==
  /\ \A i \in 1..Len(proc.out) : proc.out[i].fatal => (i = 1 /\ Len(proc.out) = 1)
  /\ (Exited /\ proc.exit # 0) => \A i \in 1..Len(proc.out) : proc.out[i].fatal
  /\ proc.exit = 1 => (Len(proc.out) = 1 /\ proc.out[1].fatal)

C7_Witness ==
  /\ Exited
  /\ proc.handler = "help"
  /\ Args # <<>>
  /\ OnlyLine("unknown subcommand \"%s\"")

\* C8: with trailing arguments left out, the first missing input is read
\* from stdin as if "-" stood there, and the invocation ends with a result
\* and status 0 or with one diagnostic line and status 1.
C8_OmittedInputsNeverCrash ==
  (/\ Exited
   /\ proc.handler # ""
   /\ Len(InputArgs) < Inputs(proc.handler))
    => /\ proc.reads = 1
       /\ \/ (proc.exit = 0 /\ proc.out # <<>> /\ \A i \in 1..Len(proc.out) : ~proc.out[i].fatal)
          \/ (proc.exit = 1 /\ Len(proc.out) = 1 /\ proc.out[1].fatal)

AllHex(texts) == \A i \in 1..Len(texts) : HexDecodeString(texts[i]).ok

\* Status 0 with the result printed on success, status 1 with every
\* diagnostic and on each error multitool.go reports (no subcommand, an
\* unknown one, which is named and runs no handler, a stdin timeout, a second
\* use of stdin, a malformed encoding); a signature that does not verify
\* prints "not verified" with status 0.
ListedExitCodes ==
  Exited =>
    /\ proc.exit # Running
    /\ proc.exit = 0 => (proc.out # <<>> /\ \A i \in 1..Len(proc.out) : ~proc.out[i].fatal)
    /\ (\E i \in 1..Len(proc.out) : proc.out[i].fatal) => proc.exit = 1
    /\ osArgs = <<>> => (OnlyLine("no subcommand (try \"%s help\")") /\ proc.handler = "")
    /\ (osArgs # <<>> /\ ~IsSubcommand(osArgs[1]))
         => /\ OnlyLine("unknown subcommand \"%s\"")
            /\ proc.out[1].arg = osArgs[1]
            /\ proc.handler = ""
    /\ (proc.handler # "" /\ StdinSlots # {} /\ ~stdinData.ok)
         => OnlyLine("unexpected error: %s")
    /\ (proc.handler # "" /\ Cardinality(StdinSlots) >= 2 /\ stdinData.ok)
         => OnlyLine("can use stdin for only one arg")
    /\ (proc.handler \in {"assetid", "hmac512", "sha3Cmd"}
          /\ Len(proc.inputs) = Inputs(proc.handler) /\ ~AllHex(proc.inputs))
         => proc.exit = 1
    /\ (proc.handler \in {"varint", "uvarint"} /\ proc.mode = "-from"
          /\ (~HexDecodeString(proc.val).ok
                \/ Uvarint(HexDecodeString(proc.val).bytes).nbytes <= 0))
         => proc.exit = 1
    /\ (proc.handler \in {"varint", "uvarint"} /\ proc.mode = "-to" /\ ~ParseInt(proc.val).ok)
         => proc.exit = 1
    /\ (proc.handler \in {"pub", "sign", "verify"}
          /\ Len(proc.inputs) = Inputs(proc.handler)
          /\ Unparseable(proc.handler, proc.inputs[1]))
         => proc.exit = 1
    /\ (proc.handler = "verify" /\ Len(proc.inputs) = 3 /\ AllHex(Tail(proc.inputs))
          /\ ~Unparseable("verify", proc.inputs[1])
          /\ proc.inputs[3] # proc.inputs[2] \o proc.inputs[2])
         => (proc.exit = 0 /\ Len(proc.out) = 1 /\ proc.out[1].fmt = "not verified")

\* C9: every invocation ends with status 0 (success) or status 1 (a fatal
\* error), with the statuses above for the cases the claim lists.
C9_ExitCodes == (Exited => proc.exit \in {0, 1}) /\ ListedExitCodes

\* C10: -from or -to fixes the direction and the value is used as given;
\* with no flag a value with the prefix 0x is decoded without it, a value
\* that is a base-10 int64 is encoded, and any other value is decoded; the
\* decoding fails when the value is no hex or no whole varint.
C10_ModeSelection ==
  (/\ Exited
   /\ proc.handler \in {"varint", "uvarint"}
   /\ Len(proc.inputs) = 1)
    => LET flag == FlagOf(Args)
           raw == proc.inputs[1]
           hex == HexDecodeString(proc.val)
           Printed(format) ==
             proc.exit = 0 /\ Len(proc.out) = 1 /\ proc.out[1].fmt = format
       IN  /\ flag = FromFlag => (proc.mode = "-from" /\ proc.val = raw)
           /\ flag = ToFlag => (proc.mode = "-to" /\ proc.val = raw)
           /\ (flag = <<>> /\ HasPrefix(raw, HexPrefix))
                => (proc.mode = "-from" /\ proc.val = SubSeq(raw, 3, Len(raw)))
           /\ (flag = <<>> /\ ~HasPrefix(raw, HexPrefix))
                => /\ proc.val = raw
                   /\ proc.mode = IF ParseInt(raw).ok THEN "-to" ELSE "-from"
           /\ proc.mode = "-from"
                => IF ~hex.ok
                   THEN OnlyLine("error decoding hex: %s")
                   ELSE IF Uvarint(hex.bytes).nbytes <= 0
                        THEN OnlyLine("could not parse varint")
                        ELSE Printed("%d\n")
           /\ proc.mode = "-to"
                => IF ParseInt(proc.val).ok
                   THEN Printed("%s\n")
                   ELSE OnlyLine("could not parse base 10 int")

C10_Witness ==
  /\ Exited
  /\ proc.handler = "uvarint"
  /\ Args = <<<<"0", "x", "a", "c", "0", "2">>>>
  /\ proc.mode = "-from"
  /\ proc.val = <<"a", "c", "0", "2">>
  /\ proc.exit = 0
  /\ proc.out[1].arg = <<"3", "0", "0">>

(***************************************************************************)
(* The codec's round trip                                                  *)
(***************************************************************************)
\* The number a canonical decimal text writes.
Magnitude(text) == DigitsOf(IF text[1] = "-" THEN Tail(text) ELSE text)

InRange(text, signed) ==
  IF signed
  THEN IF text[1] = "-"
       THEN BigLeq(Magnitude(text), Two63)
       ELSE BigLess(Magnitude(text), Two63)
  ELSE text[1] # "-" /\ BigLess(Magnitude(text), Two64)

\* C5: for n in the signed range with varint and for n in the unsigned range
\* with uvarint, -to prints a hex text and -from on that text prints n.
C5_RoundTrip ==
  InRange(cVal, cSigned) =>
    /\ cPc \in {"encoded", "decoded"}
         => (cHex.exit = 0 /\ Len(cHex.out) = 1 /\ ~cHex.out[1].fatal)
    /\ cPc = "decoded"
         => (cBack.exit = 0 /\ Len(cBack.out) = 1 /\ cBack.out[1].arg = cVal)

\* The signed half of C5 alone.
SignedRoundTrip == cSigned => C5_RoundTrip

====
